---- MODULE Spec2Model ----
(***************************************************************************)
(* Model of bitcoin-data-mcp (src/main.rs): an MCP server over stdio that  *)
(* exposes eight Esplora look-up tools.                                    *)
(*                                                                         *)
(* The program's own code is the ServerHandler implementation of MyServer  *)
(* (list_tools, call_tool, initialize), the two network enums with their   *)
(* api_base tables, the eight parameter structs and the fetch helpers.     *)
(* main() hands MyServer to rmcp's serve(stdio()) and propagates its       *)
(* result with `?`; the lifecycle actions below are what that call does    *)
(* with the messages it reads.                                             *)
(*                                                                         *)
(* The runtime is tokio's current_thread flavour and no handler awaits     *)
(* anything (the HTTP fetch is a blocking ureq call), so a handler runs    *)
(* from the message to the response without interleaving: one action per   *)
(* message.                                                                *)
(***************************************************************************)
EXTENDS Integers, Sequences, FiniteSets, TLC

\* ------------------------------------------------------------------ bounds

\* Number of messages the client sends in one run.
MaxRequests == 4

\* Number of messages the client sends in a run that an observer follows
\* (SpecHistory).
MaxHistory == 5

\* ------------------------------------------------------------- constants

BITCOIN_MAINNET_API == "https://blockstream.info/api"
BITCOIN_TESTNET_API == "https://blockstream.info/testnet/api"
BITCOIN_SIGNET_API == "https://blockstream.info/signet/api"
LIQUID_MAINNET_API == "https://blockstream.info/liquid/api"
LIQUID_TESTNET_API == "https://blockstream.info/liquidtestnet/api"

\* ------------------------------------------------------------ JSON values

\* A JSON string and a JSON number, the two value types the inputs use.
JStr(s) == [ty |-> "string", val |-> s]
JNum(s) == [ty |-> "integer", val |-> s]

\* Option<T>
None == [some |-> FALSE]
Some(v) == [some |-> TRUE, val |-> v]

\* Result<T, E>
Ok(v) == [ok |-> TRUE, val |-> v]
Err(e) == [ok |-> FALSE, err |-> e]

Range(s) == {s[i] : i \in DOMAIN s}

\* --------------------------------------------------------- network enums

\* enum BitcoinNetwork / LiquidNetwork: the variants, in declaration order.
BitcoinNetwork == <<"Mainnet", "Testnet", "Signet">>
LiquidNetwork == <<"Mainnet", "Testnet">>

Variants(family) ==
    IF family = "Bitcoin" THEN BitcoinNetwork ELSE LiquidNetwork

\* #[serde(rename_all = "lowercase")]: the tag a variant is written as.
Lowercase(variant) ==
    CASE variant = "Mainnet" -> "mainnet"
      [] variant = "Testnet" -> "testnet"
      [] variant = "Signet" -> "signet"

\* The tags a family's enum accepts, in declaration order.
Tags(family) == [i \in DOMAIN Variants(family) |-> Lowercase(Variants(family)[i])]

\* #[default] Mainnet, on both enums.
DefaultNetwork_Testnet(family) ==
    IF family = "Bitcoin" THEN "Testnet" ELSE "Testnet"

DefaultNetwork(family) ==
    IF family = "Bitcoin" THEN "Mainnet" ELSE "Mainnet"

\* BitcoinNetwork::api_base
BitcoinApiBase_CopyPaste(variant) ==
    CASE variant = "Mainnet" -> BITCOIN_MAINNET_API
      [] variant = "Testnet" -> BITCOIN_MAINNET_API
      [] variant = "Signet" -> BITCOIN_SIGNET_API

BitcoinApiBase(variant) ==
    CASE variant = "Mainnet" -> BITCOIN_MAINNET_API
      [] variant = "Testnet" -> BITCOIN_TESTNET_API
      [] variant = "Signet" -> BITCOIN_SIGNET_API

\* LiquidNetwork::api_base
LiquidApiBase(variant) ==
    CASE variant = "Mainnet" -> LIQUID_MAINNET_API
      [] variant = "Testnet" -> LIQUID_TESTNET_API

\* network.api_base(), on a value of the family's enum.
api_base(family, variant) ==
    IF family = "Bitcoin" THEN BitcoinApiBase(variant) ELSE LiquidApiBase(variant)

\* ------------------------------------------------------ parameter structs

\* The eight #[derive(Deserialize, JsonSchema)] structs: the struct's name,
\* its required String field ("" when it has none) and the enum type of its
\* #[serde(default)] network field.
GetBitcoinTxParams ==
    [name |-> "GetBitcoinTxParams", required |-> "txid", family |-> "Bitcoin"]
GetLiquidTxParams ==
    [name |-> "GetLiquidTxParams", required |-> "txid", family |-> "Liquid"]
GetBitcoinBlockParams ==
    [name |-> "GetBitcoinBlockParams", required |-> "hash", family |-> "Bitcoin"]
GetLiquidBlockParams_Bitcoin ==
    [name |-> "GetLiquidBlockParams", required |-> "hash", family |-> "Bitcoin"]
GetLiquidBlockParams ==
    [name |-> "GetLiquidBlockParams", required |-> "hash", family |-> "Liquid"]
GetBitcoinTipHeightParams ==
    [name |-> "GetBitcoinTipHeightParams", required |-> "", family |-> "Bitcoin"]
GetLiquidTipHeightParams ==
    [name |-> "GetLiquidTipHeightParams", required |-> "", family |-> "Liquid"]
GetBitcoinMempoolParams ==
    [name |-> "GetBitcoinMempoolParams", required |-> "", family |-> "Bitcoin"]
GetLiquidMempoolParams ==
    [name |-> "GetLiquidMempoolParams", required |-> "", family |-> "Liquid"]

\* The fields a struct declares.
Fields(shape) ==
    IF shape.required = "" THEN {"network"} ELSE {shape.required, "network"}

\* ------------------------------------------- serde_json::from_value(args)

\* The text of serde's errors, as the pieces its Display joins (the
\* backquotes it prints around a name or a value are left out).
MissingField(f) == <<"missing field ", f>>
InvalidType(v, expected) ==
    <<"invalid type: ", v.ty, " ", v.val, ", expected ", expected>>
UnknownVariant(tag, tags) ==
    <<"unknown variant ", tag, ", expected one of ">> \o tags

\* Deserialize of a network enum from one JSON value.
DeserializeNetwork_Fallback(family, v) ==
    IF v.ty # "string" THEN Err(InvalidType(v, "string or map"))
    ELSE IF \E i \in DOMAIN Tags(family) : Tags(family)[i] = v.val
         THEN Ok(Variants(family)[CHOOSE i \in DOMAIN Tags(family) :
                                      Tags(family)[i] = v.val])
         ELSE Ok(DefaultNetwork(family))

DeserializeNetwork(family, v) ==
    IF v.ty # "string" THEN Err(InvalidType(v, "string or map"))
    ELSE IF \E i \in DOMAIN Tags(family) : Tags(family)[i] = v.val
         THEN Ok(Variants(family)[CHOOSE i \in DOMAIN Tags(family) :
                                      Tags(family)[i] = v.val])
         ELSE Err(UnknownVariant(v.val, Tags(family)))

\* Deserialize of a String field from one JSON value.
DeserializeString(v) ==
    IF v.ty = "string" THEN Ok(v.val) ELSE Err(InvalidType(v, "a string"))

\* Deserialize of one declared field that the argument object carries.
DeserializeField(shape, k, v) ==
    IF k = "network" THEN DeserializeNetwork(shape.family, v)
    ELSE DeserializeString(v)

\* serde_json::Value::Object(args) as the deserializer meets it: the
\* object's (key, value) entries in the map's iteration order, which is the
\* ascending order of the keys, or the descending one when `desc` (a map
\* type that keeps the caller's order, and a caller that wrote them so).
KeyOrder == <<"hash", "network", "txid">>

Reverse(q) == [i \in DOMAIN q |-> q[Len(q) + 1 - i]]

Entries(map, desc) ==
    LET InMap(k) == k \in DOMAIN map
        keys == SelectSeq(IF desc THEN Reverse(KeyOrder) ELSE KeyOrder, InMap)
    IN  [i \in DOMAIN keys |-> <<keys[i], map[keys[i]]>>]

\* The derived Deserialize of a parameter struct from the entries of the
\* argument object.  The visitor walks the entries in order, ignores the
\* keys the struct does not declare, and stops at the first declared field
\* whose value does not deserialize; only after the walk does it report a
\* required field that was absent, and fill an absent network with the
\* enum's default.
Deserialize_DefaultRequired(shape, entries) ==
    LET Has(k) == \E i \in DOMAIN entries : entries[i][1] = k
        ValueOf(k) == entries[CHOOSE i \in DOMAIN entries : entries[i][1] = k][2]
        bad == {i \in DOMAIN entries :
                  /\ entries[i][1] \in Fields(shape)
                  /\ ~DeserializeField(shape, entries[i][1], entries[i][2]).ok}
        first == CHOOSE i \in bad : \A j \in bad : i <= j
    IN  IF bad # {}
        THEN Err(DeserializeField(shape, entries[first][1], entries[first][2]).err)
        ELSE Ok([k \in Fields(shape) |->
                   IF k = "network"
                   THEN IF Has(k)
                        THEN DeserializeNetwork(shape.family, ValueOf(k)).val
                        ELSE DefaultNetwork(shape.family)
                   ELSE IF Has(k) THEN ValueOf(k).val ELSE ""])

Deserialize(shape, entries) ==
    LET Has(k) == \E i \in DOMAIN entries : entries[i][1] = k
        ValueOf(k) == entries[CHOOSE i \in DOMAIN entries : entries[i][1] = k][2]
        bad == {i \in DOMAIN entries :
                  /\ entries[i][1] \in Fields(shape)
                  /\ ~DeserializeField(shape, entries[i][1], entries[i][2]).ok}
        first == CHOOSE i \in bad : \A j \in bad : i <= j
    IN  IF bad # {}
        THEN Err(DeserializeField(shape, entries[first][1], entries[first][2]).err)
        ELSE IF shape.required # "" /\ ~Has(shape.required)
        THEN Err(MissingField(shape.required))
        ELSE Ok([k \in Fields(shape) |->
                   IF k = "network"
                   THEN IF Has(k)
                        THEN DeserializeNetwork(shape.family, ValueOf(k)).val
                        ELSE DefaultNetwork(shape.family)
                   ELSE ValueOf(k).val])

\* ------------------------------------------------------------ the backend

\* fetch_esplora: one blocking GET of `url`.  `reply` is what the backend
\* does with it: a body, a failed call (connection error or HTTP status
\* error), or a body that cannot be read.  The result keeps the URL that was
\* requested beside the Result the function returns.
fetch_esplora(url, reply) ==
    [url |-> url,
     result |-> CASE reply.status = "call_failed" ->
                        Err(<<"HTTP request failed: ", reply.text>>)
                  [] reply.status = "read_failed" ->
                        Err(<<"Failed to read response: ", reply.text>>)
                  [] OTHER -> Ok(reply.text)]

fetch_transaction(base_url, txid, reply) ==
    fetch_esplora(<<base_url, "/tx/", txid>>, reply)

fetch_block(base_url, hash, reply) ==
    fetch_esplora(<<base_url, "/block/", hash>>, reply)

fetch_tip_height(base_url, reply) ==
    fetch_esplora(<<base_url, "/blocks/tip/height">>, reply)

fetch_mempool(base_url, reply) ==
    fetch_esplora(<<base_url, "/mempool">>, reply)

\* ------------------------------------------------------------- envelopes

\* ErrorData::invalid_request(message, None) and ::internal_error(message, None)
invalid_request(message) ==
    [code |-> "invalid_request", message |-> message, data |-> None]
internal_error(message) ==
    [code |-> "internal_error", message |-> message, data |-> None]

\* CallToolResult::success(vec![Content::text(body)])
CallToolSuccess(body) ==
    [content |-> <<[type |-> "text", text |-> body]>>, is_error |-> FALSE]

\* ---------------------------------------------------------- make_schema

\* schemars::schema_for!(T): the root schema of a parameter struct.
schema_for(shape) ==
    [title |-> shape.name,
     type |-> "object",
     properties |-> Fields(shape),
     required |-> Fields(shape) \ {"network"},
     network |-> [enum |-> Tags(shape.family),
                  default |-> Lowercase(DefaultNetwork(shape.family))]]

\* serde_json::to_value(schema): a root schema serializes to a JSON object.
to_value(schema) == Ok([ty |-> "object", map |-> schema])

\* make_schema::<T>()
make_schema(shape) ==
    LET input_schema == to_value(schema_for(shape))
    IN  IF ~input_schema.ok
        THEN Err(internal_error(<<"Failed to serialize schema: ", input_schema.err>>))
        ELSE IF input_schema.val.ty = "object"
        THEN Ok(input_schema.val.map)
        ELSE Err(internal_error(<<"Schema is not an object">>))

\* ------------------------------------------------------------ list_tools

\* One Tool { name, title: None, description, input_schema, .. } literal.
Tool(name, description, input_schema) ==
    [name |-> name, title |-> None, description |-> Some(description),
     input_schema |-> input_schema, output_schema |-> None,
     annotations |-> None, icons |-> None]

\* The (name, description, parameter struct) of the eight Tool literals of
\* list_tools, in the order of the vec!.
ToolLiterals ==
    << <<"get_bitcoin_tx",
         "Get a Bitcoin transaction by its txid from the Esplora API. Returns full transaction data including confirmation status and block height.",
         GetBitcoinTxParams>>,
       <<"get_liquid_tx",
         "Get a Liquid transaction by its txid from the Esplora API. Returns full transaction data including confirmation status and block height.",
         GetLiquidTxParams>>,
       <<"get_bitcoin_block",
         "Get a Bitcoin block by its hash from the Esplora API. Returns block data including height, timestamp, tx_count, size, and weight.",
         GetBitcoinBlockParams>>,
       <<"get_liquid_block",
         "Get a Liquid block by its hash from the Esplora API. Returns block data including height, timestamp, tx_count, size, and weight.",
         GetLiquidBlockParams>>,
       <<"get_bitcoin_tip_height",
         "Get the current Bitcoin blockchain tip height from the Esplora API.",
         GetBitcoinTipHeightParams>>,
       <<"get_liquid_tip_height",
         "Get the current Liquid blockchain tip height from the Esplora API.",
         GetLiquidTipHeightParams>>,
       <<"get_bitcoin_mempool",
         "Get Bitcoin mempool statistics from the Esplora API. Returns tx count, total vsize, total fees, and fee histogram.",
         GetBitcoinMempoolParams>>,
       <<"get_liquid_mempool",
         "Get Liquid mempool statistics from the Esplora API. Returns tx count, total vsize, total fees, and fee histogram.",
         GetLiquidMempoolParams>> >>

\* MyServer::list_tools(_params, _context).  Each make_schema::<T>()? returns
\* its error from the whole function; otherwise the eight tools and no
\* cursor.  The request's parameter is not read.
list_tools_EchoCursor(params) ==
    LET schemas == [i \in DOMAIN ToolLiterals |-> make_schema(ToolLiterals[i][3])]
        failed == {i \in DOMAIN schemas : ~schemas[i].ok}
    IN  IF failed # {}
        THEN Err(schemas[CHOOSE i \in failed : \A j \in failed : i <= j].err)
        ELSE Ok([tools |-> [i \in DOMAIN ToolLiterals |->
                               Tool(ToolLiterals[i][1], ToolLiterals[i][2],
                                    schemas[i].val)],
                 next_cursor |-> IF params.some THEN params.val.cursor ELSE None])

list_tools(params) ==
    LET schemas == [i \in DOMAIN ToolLiterals |-> make_schema(ToolLiterals[i][3])]
        failed == {i \in DOMAIN schemas : ~schemas[i].ok}
    IN  IF failed # {}
        THEN Err(schemas[CHOOSE i \in failed : \A j \in failed : i <= j].err)
        ELSE Ok([tools |-> [i \in DOMAIN ToolLiterals |->
                               Tool(ToolLiterals[i][1], ToolLiterals[i][2],
                                    schemas[i].val)],
                 next_cursor |-> None])

\* ------------------------------------------------------------- call_tool

\* What one call does: the URLs it fetched, in order, and what it returns.
Outcome(fetches, result) == [fetches |-> fetches, result |-> result]

\* The tail of every arm that decoded its parameters: the fetch's error is
\* mapped with ErrorData::internal_error(e, None) and returned by `?`, its
\* body is wrapped as the one text content of a success result.
Fetched_Retry(f) ==
    Outcome(IF f.result.ok THEN <<f.url>> ELSE <<f.url, f.url>>,
            IF f.result.ok THEN Ok(CallToolSuccess(f.result.val))
            ELSE Err(internal_error(f.result.err)))

Fetched(f) ==
    Outcome(<<f.url>>,
            IF f.result.ok THEN Ok(CallToolSuccess(f.result.val))
            ELSE Err(internal_error(f.result.err)))

\* The head of every arm: serde_json::from_value(args_value) with its error
\* mapped to ErrorData::invalid_request("Invalid parameters: {e}") and
\* returned by `?` before anything is fetched.
Rejected(e) ==
    Outcome(<<>>, Err(invalid_request(<<"Invalid parameters: ">> \o e)))

\* The arms of the two tx tools, the two block tools, the two tip-height
\* tools and the two mempool tools, over the arm's parameter struct.
TxArm(shape, args_value, reply) ==
    LET d == Deserialize(shape, args_value)
    IN  IF d.ok
        THEN Fetched(fetch_transaction(api_base(shape.family, d.val["network"]),
                                        d.val["txid"], reply))
        ELSE Rejected(d.err)

BlockArm(shape, args_value, reply) ==
    LET d == Deserialize(shape, args_value)
    IN  IF d.ok
        THEN Fetched(fetch_block(api_base(shape.family, d.val["network"]),
                                  d.val["hash"], reply))
        ELSE Rejected(d.err)

TipHeightArm(shape, args_value, reply) ==
    LET d == Deserialize(shape, args_value)
    IN  IF d.ok
        THEN Fetched(fetch_tip_height(api_base(shape.family, d.val["network"]), reply))
        ELSE Rejected(d.err)

MempoolArm(shape, args_value, reply) ==
    LET d == Deserialize(shape, args_value)
    IN  IF d.ok
        THEN Fetched(fetch_mempool(api_base(shape.family, d.val["network"]), reply))
        ELSE Rejected(d.err)

\* The object an absent arguments field defaults to.
EmptyMap == [k \in {} |-> JStr("")]

\* The `_` arm of call_tool's match.
UnknownTool_Generic(tool_name) ==
    Outcome(<<>>, Err(invalid_request(<<"Unknown tool">>)))

UnknownTool(tool_name) ==
    Outcome(<<>>, Err(invalid_request(<<"Unknown tool: ", tool_name>>)))

\* MyServer::call_tool(params, _context): the outcome of the call when the
\* backend answers its fetch with `reply`.
call_tool(params, reply) ==
    LET tool_name == params.name
        args_value == Entries(IF params.arguments.some THEN params.arguments.val
                              ELSE EmptyMap, params.desc)
    IN  CASE tool_name = "get_bitcoin_tx" ->
                TxArm(GetBitcoinTxParams, args_value, reply)
          [] tool_name = "get_liquid_tx" ->
                TxArm(GetLiquidTxParams, args_value, reply)
          [] tool_name = "get_bitcoin_block" ->
                BlockArm(GetBitcoinBlockParams, args_value, reply)
          [] tool_name = "get_liquid_block" ->
                BlockArm(GetLiquidBlockParams, args_value, reply)
          [] tool_name = "get_bitcoin_tip_height" ->
                TipHeightArm(GetBitcoinTipHeightParams, args_value, reply)
          [] tool_name = "get_liquid_tip_height" ->
                TipHeightArm(GetLiquidTipHeightParams, args_value, reply)
          [] tool_name = "get_bitcoin_mempool" ->
                MempoolArm(GetBitcoinMempoolParams, args_value, reply)
          [] tool_name = "get_liquid_mempool" ->
                MempoolArm(GetLiquidMempoolParams, args_value, reply)
          [] OTHER -> UnknownTool(tool_name)

\* ------------------------------------------------------------ initialize

\* MyServer::initialize(_params, _context)
initialize(params) ==
    Ok([protocol_version |-> "default",
        capabilities |-> [tools |-> Some("default")],
        server_info |-> [name |-> "Bitcoin Data MCP Server", title |-> None,
                         version |-> "0.1.0", icons |-> None,
                         website_url |-> None],
        instructions |-> None])

\* ------------------------------------------------------------ the inputs

RegisteredNames ==
    {"get_bitcoin_tx", "get_liquid_tx", "get_bitcoin_block", "get_liquid_block",
     "get_bitcoin_tip_height", "get_liquid_tip_height", "get_bitcoin_mempool",
     "get_liquid_mempool"}

\* Tool names a caller may send: the registered ones and two that are not.
ToolNames == RegisteredNames \cup {"get_dogecoin_tx", "list_tools"}

\* The keys an argument object may carry, and the values tried under each:
\* a string and a number for txid and hash; the three tags, a tag no enum
\* has and a number for network.
Keys == {"hash", "network", "txid"}

ArgValues(k) ==
    IF k = "network"
    THEN {JStr("mainnet"), JStr("testnet"), JStr("signet"), JStr("regtest"),
          JNum("7")}
    ELSE {JStr("4a5e1e"), JNum("7")}

\* The argument objects tried: any subset of the keys with any of their
\* values, except that an object carrying both txid and hash carries both
\* as strings.
ArgMaps ==
    UNION {{m \in [S -> UNION {ArgValues(k) : k \in Keys}] :
              /\ \A k \in S : m[k] \in ArgValues(k)
              /\ {"txid", "hash"} \subseteq S
                    => (m["txid"].ty = "string" /\ m["hash"].ty = "string")}
           : S \in SUBSET Keys}

\* The objects also tried with their entries in descending order. The
\* order shows only in which of two failing entries is reported, and two
\* entries fail only when network is one of them: the objects of two or
\* more entries whose network is a tag some enum lacks, or no string.
DescMaps ==
    {m \in ArgMaps :
        /\ Cardinality(DOMAIN m) >= 2
        /\ "network" \in DOMAIN m
        /\ m["network"] \notin {JStr("mainnet"), JStr("testnet")}}

\* CallToolRequestParam { name, arguments: Option<JsonObject> }, with the
\* order of the object's entries.
CallParams ==
    {[name |-> n, arguments |-> a, desc |-> FALSE] :
        n \in ToolNames, a \in {None} \cup {Some(m) : m \in ArgMaps}}
    \cup
    {[name |-> n, arguments |-> Some(m), desc |-> TRUE] :
        n \in ToolNames, m \in DescMaps}

\* Option<PaginatedRequestParam>
ListParams == {None, Some([cursor |-> Some("page2")])}

\* InitializeRequestParam (the handler does not read it)
InitParams == {[protocol_version |-> "2024-11-05"]}

\* What the backend can do with one GET.
Replies ==
    {[status |-> "ok", text |-> "{json}"],
     [status |-> "call_failed", text |-> "status code 404"],
     [status |-> "read_failed", text |-> "invalid utf-8"]}

NoReply == [status |-> "none", text |-> ""]

\* The backend only acts when it is asked: a call that fetches nothing has
\* no reply to draw.
FetchingParams ==
    {p \in CallParams : call_tool(p, NoReply).fetches # <<>>}

\* The (request, reply) pairs of the tools/call steps.
CallInputs ==
    {<<p, r>> : p \in FetchingParams, r \in Replies}
    \cup {<<p, NoReply>> : p \in CallParams \ FetchingParams}

\* Each of them with the outcome call_tool has on it.
CallSteps ==
    {[params |-> c[1], reply |-> c[2], outcome |-> call_tool(c[1], c[2])] :
        c \in CallInputs}

\* -------------------------------------------------------------- the state

VARIABLES
    phase,      \* where serve() / waiting() is: "Uninitialized" (awaiting the
                \* initialize request), "Ready" (awaiting the initialized
                \* notification), "Serving" (the request loop), "Closed"
    exit,       \* what main returned: "running", "ok" or "err"
    nextId,     \* the number of the next message the client sends
    requested,  \* the numbers of the messages that were requests
    out,        \* the ids of the responses written to stdout, in order
    last,       \* the last message read, what was fetched for it, and the
                \* responses written for it
    listings,   \* the (parameter, result) pairs of the tools/list requests
                \* answered so far
    budget,     \* the number of messages the client of this run sends
    ref         \* an earlier tools/call that an observer of the run noted,
                \* with what was fetched and returned for it

vars == <<phase, exit, nextId, requested, out, last, listings, budget, ref>>

NoRef == [set |-> FALSE]

\* One JSON-RPC response: the request's id with a result or an error.
Response(id, result) == [id |-> id, result |-> result]

Handled(method, params, reply, fetches, resp) ==
    [id |-> nextId, method |-> method, params |-> params, reply |-> reply,
     fetches |-> fetches, resp |-> resp]

InitWith(messages) ==
    /\ phase = "Uninitialized"
    /\ exit = "running"
    /\ nextId = 1
    /\ requested = {}
    /\ out = <<>>
    /\ last = [id |-> 0, method |-> "none", params |-> None, reply |-> NoReply,
               fetches |-> <<>>, resp |-> <<>>]
    /\ listings = {}
    /\ budget = messages
    /\ ref = NoRef

Init == InitWith(MaxRequests)

CanReceive == phase # "Closed" /\ nextId <= budget

\* serve() or waiting() returns an error, which main returns with `?`:
\* the process ends and the message that was read is not answered.
MainFails(method, params, isRequest) ==
    /\ phase' = "Closed"
    /\ exit' = "err"
    /\ nextId' = nextId + 1
    /\ requested' = IF isRequest THEN requested \cup {nextId} ELSE requested
    /\ last' = Handled(method, params, NoReply, <<>>, <<>>)
    /\ UNCHANGED <<out, listings, budget, ref>>

\* A request is handled and its one response is written.
Answer(method, params, reply, fetches, result) ==
    /\ exit' = exit
    /\ nextId' = nextId + 1
    /\ requested' = requested \cup {nextId}
    /\ out' = Append(out, nextId)
    /\ last' = Handled(method, params, reply, fetches,
                       <<Response(nextId, result)>>)
    /\ UNCHANGED <<budget, ref>>

\* The client sends an initialize request.  serve() accepts it as the first
\* message, calls the handler and writes its result; while it waits for the
\* initialized notification any other message ends it with an error; the
\* request loop hands a later initialize to the handler again.
Initialize(params) ==
    /\ CanReceive
    /\ IF phase = "Ready"
       THEN MainFails("initialize", params, TRUE)
       ELSE /\ phase' = IF phase = "Uninitialized" THEN "Ready" ELSE phase
            /\ Answer("initialize", params, NoReply, <<>>, initialize(params))
            /\ UNCHANGED listings

\* The client sends the notifications/initialized notification.  As the
\* first message it is not the initialize request serve() expects; after the
\* initialize response it completes serve(); in the request loop the
\* handler's default on_initialized does nothing.  It is never answered.
Initialized ==
    /\ CanReceive
    /\ IF phase = "Uninitialized"
       THEN MainFails("notifications/initialized", None, FALSE)
       ELSE /\ phase' = "Serving"
            /\ nextId' = nextId + 1
            /\ last' = Handled("notifications/initialized", None, NoReply,
                               <<>>, <<>>)
            /\ UNCHANGED <<exit, requested, out, listings, budget, ref>>

\* The client sends a tools/list request.
ListTools(params) ==
    /\ CanReceive
    /\ IF phase # "Serving"
       THEN MainFails("tools/list", params, TRUE)
       ELSE /\ Answer("tools/list", params, NoReply, <<>>, list_tools(params))
            /\ listings' = listings \cup {<<params, list_tools(params)>>}
            /\ UNCHANGED phase

\* The client sends the tools/call request c.params; the backend answers
\* the fetch the call makes, if it makes one, with c.reply, and call_tool
\* returns c.outcome.
CallTool_Cached(c) ==
    /\ CanReceive
    /\ IF phase # "Serving"
       THEN MainFails("tools/call", c.params, TRUE)
       ELSE /\ IF /\ last.method = "tools/call"
                  /\ last.resp # <<>>
                  /\ last.params.name = c.params.name
               THEN Answer("tools/call", c.params, c.reply, <<>>,
                           last.resp[1].result)
               ELSE Answer("tools/call", c.params, c.reply, c.outcome.fetches,
                           c.outcome.result)
            /\ UNCHANGED <<phase, listings>>

CallTool(c) ==
    /\ CanReceive
    /\ IF phase # "Serving"
       THEN MainFails("tools/call", c.params, TRUE)
       ELSE /\ Answer("tools/call", c.params, c.reply, c.outcome.fetches,
                      c.outcome.result)
            /\ UNCHANGED <<phase, listings>>

\* The client closes stdin.  Before the handshake is complete serve()
\* returns a connection-closed error; afterwards waiting() returns the quit
\* reason and main returns Ok(()).
Close ==
    /\ phase # "Closed"
    /\ phase' = "Closed"
    /\ exit' = IF phase = "Serving" THEN "ok" ELSE "err"
    /\ UNCHANGED <<nextId, requested, out, last, listings, budget, ref>>

Next ==
    \/ \E p \in InitParams : Initialize(p)
    \/ Initialized
    \/ \E p \in ListParams : ListTools(p)
    \/ \E c \in CallSteps : CallTool(c)
    \/ Close

Spec == Init /\ [][Next]_vars

\* ------------------------------------------------- a run with an observer

\* The requests of the observed runs: a tool with a required field, one
\* without and a name that is not registered, with and without a txid and
\* a network no enum has.
HistorySteps ==
    {c \in CallSteps :
        /\ c.params.name \in {"get_bitcoin_tx", "get_liquid_mempool",
                               "get_dogecoin_tx"}
        /\ c.params.arguments.some
              => /\ "hash" \notin DOMAIN c.params.arguments.val
                 /\ "network" \in DOMAIN c.params.arguments.val
                       => c.params.arguments.val["network"] = JStr("regtest")}

\* The observer notes the call that was just handled, once in a run.  The
\* server takes no step.
Remember ==
    /\ ref = NoRef
    /\ last.method = "tools/call"
    /\ last.resp # <<>>
    /\ ref' = [set |-> TRUE, id |-> last.id, params |-> last.params,
               reply |-> last.reply, fetches |-> last.fetches,
               result |-> last.resp[1].result]
    /\ UNCHANGED <<phase, exit, nextId, requested, out, last, listings, budget>>

InitHistory == InitWith(MaxHistory)

NextHistory ==
    \/ \E p \in InitParams : Initialize(p)
    \/ Initialized
    \/ \E p \in ListParams : ListTools(p)
    \/ \E c \in HistorySteps : CallTool(c)
    \/ Close
    \/ Remember

SpecHistory == InitHistory /\ [][NextHistory]_vars

\* ============================================================== claims

\* What the claims say of a tool by its name: the get_bitcoin_* tools belong
\* to the Bitcoin family, the get_liquid_* tools to the Liquid family; the
\* tx tools require txid, the block tools hash.
BitcoinTools ==
    {"get_bitcoin_tx", "get_bitcoin_block", "get_bitcoin_tip_height",
     "get_bitcoin_mempool"}
LiquidTools ==
    {"get_liquid_tx", "get_liquid_block", "get_liquid_tip_height",
     "get_liquid_mempool"}
LegalTags(name) ==
    IF name \in BitcoinTools THEN {"mainnet", "testnet", "signet"}
    ELSE IF name \in LiquidTools THEN {"mainnet", "testnet"}
    ELSE {}
RequiredField(name) ==
    IF name \in {"get_bitcoin_tx", "get_liquid_tx"} THEN "txid"
    ELSE IF name \in {"get_bitcoin_block", "get_liquid_block"} THEN "hash"
    ELSE ""

\* The argument object of a tools/call message (empty when it sent none).
ArgsOf(h) ==
    IF h.params.arguments.some THEN h.params.arguments.val ELSE EmptyMap

\* `h` is a tools/call request that call_tool handled.
IsCall(h) == h.method = "tools/call" /\ h.resp # <<>>

\* `h` was answered with exactly one failure envelope.
Failed(h) == Len(h.resp) = 1 /\ ~h.resp[1].result.ok

\* C1: a tools/list or tools/call request that arrives before any initialize
\* request is answered with a failure, the process does not terminate, and
\* the handshake can still follow.  Stated of the step that reads such a
\* request as the first message of the run.
C1_OrderingErrorAnswered ==
    [][(phase = "Uninitialized" /\ nextId' = nextId + 1
        /\ last'.method \in {"tools/list", "tools/call"})
       => (/\ Failed(last')
           /\ phase' = "Uninitialized"
           /\ exit' = "running")]_vars

\* The number of responses written with id `i`.
Responses(i) == Cardinality({k \in DOMAIN out : out[k] = i})

\* C2: every request read so far has exactly one response carrying its id,
\* and every notification has none.
C2_OneResponsePerRequest ==
    \A i \in 1..(nextId - 1) :
        Responses(i) = IF i \in requested THEN 1 ELSE 0

\* The message carries a network argument that is not a tag of the tool's
\* family.
IllegalNetwork(h) ==
    /\ "network" \in DOMAIN ArgsOf(h)
    /\ \/ ArgsOf(h)["network"].ty # "string"
       \/ ArgsOf(h)["network"].val \notin LegalTags(h.params.name)

\* C3: a handled call whose network argument is not a tag of the tool's
\* family (signet for a Liquid tool, an unrecognised tag or a non-string for
\* any tool) is answered with a failure and fetches nothing.
C3_IllegalNetworkNoFetch ==
    (IsCall(last) /\ IllegalNetwork(last))
        => (Failed(last) /\ last.fetches = <<>>)

C3_Witness ==
    /\ IsCall(last)
    /\ last.params.name = "get_liquid_tx"
    /\ DOMAIN ArgsOf(last) = {"network", "txid"}
    /\ ArgsOf(last)["txid"] = JStr("4a5e1e")
    /\ ArgsOf(last)["network"] = JStr("signet")
    /\ Failed(last)

\* C4: a handled call of a name that is not a registered tool is answered
\* with the failure whose message is "Unknown tool: " followed by exactly
\* the requested name, and fetches nothing.
C4_UnknownToolNamed ==
    (IsCall(last) /\ last.params.name \notin BitcoinTools \cup LiquidTools)
        => (/\ Failed(last)
            /\ last.resp[1].result.err.message
                   = <<"Unknown tool: ", last.params.name>>
            /\ last.fetches = <<>>)

C4_Witness ==
    /\ IsCall(last)
    /\ last.params.name = "get_dogecoin_tx"
    /\ Failed(last)

\* The class of a failed call, read off its cause: the name is not
\* registered (unknown tool), nothing was fetched (invalid parameters), or
\* the fetch failed (internal error); and the kind its failure carries.
ClassOf(h) ==
    IF h.params.name \notin BitcoinTools \cup LiquidTools THEN "unknown tool"
    ELSE IF h.fetches = <<>> THEN "invalid parameters"
    ELSE "internal error"

KindOf(h) == h.resp[1].result.err.code

\* C5: two failures of different classes never carry the same kind.  Stated
\* of two calls that fail one after the other.
C5_KindsDiscriminate ==
    [][(/\ IsCall(last) /\ Failed(last)
        /\ IsCall(last') /\ Failed(last')
        /\ ClassOf(last) # ClassOf(last'))
       => KindOf(last) # KindOf(last')]_vars

\* The mainnet base address of a tool's family, and whether a message gives
\* the tool's required field as a string.
MainnetBase(name) ==
    IF name \in BitcoinTools THEN "https://blockstream.info/api"
    ELSE "https://blockstream.info/liquid/api"

RequiredGiven(h) ==
    \/ RequiredField(h.params.name) = ""
    \/ /\ RequiredField(h.params.name) \in DOMAIN ArgsOf(h)
       /\ ArgsOf(h)[RequiredField(h.params.name)].ty = "string"

\* C6: a handled call of a registered tool that gives every required field
\* as a string and no network fetches exactly once, from the mainnet base
\* address of the tool's family.
C6_OmittedNetworkIsMainnet ==
    (/\ IsCall(last)
     /\ last.params.name \in BitcoinTools \cup LiquidTools
     /\ RequiredGiven(last)
     /\ "network" \notin DOMAIN ArgsOf(last))
        => (Len(last.fetches) = 1 /\ last.fetches[1][1] = MainnetBase(last.params.name))

C6_Witness ==
    /\ IsCall(last)
    /\ last.params.name = "get_liquid_tip_height"
    /\ ~last.params.arguments.some
    /\ last.fetches = <<(<<"https://blockstream.info/liquid/api", "/blocks/tip/height">>)>>

\* The parameters of the same call without its network argument.
WithoutNetwork(h) ==
    [name |-> h.params.name,
     arguments |-> Some([k \in DOMAIN ArgsOf(h) \ {"network"} |-> ArgsOf(h)[k]]),
     desc |-> h.params.desc]

\* C7: every legal (family, variant) pair resolves to a non-empty base
\* address, a family's testnet address differs from its mainnet address,
\* and a handled call with network "testnet" that fetches does so from
\* another base address than the same call without the network argument.
C7_ResolverTotalAndDistinct ==
    /\ \A family \in {"Bitcoin", "Liquid"} :
          /\ \A i \in DOMAIN Variants(family) :
                api_base(family, Variants(family)[i]) # ""
          /\ api_base(family, "Testnet") # api_base(family, "Mainnet")
    /\ (/\ IsCall(last)
        /\ last.fetches # <<>>
        /\ "network" \in DOMAIN ArgsOf(last)
        /\ ArgsOf(last)["network"] = JStr("testnet"))
          => /\ last.fetches[1][1] # ""
             /\ LET o == call_tool(WithoutNetwork(last), last.reply)
                IN /\ o.fetches # <<>>
                   /\ o.fetches[1][1] # last.fetches[1][1]
                   /\ Tail(o.fetches[1]) = Tail(last.fetches[1])

C7_Witness ==
    /\ IsCall(last)
    /\ last.params.name = "get_bitcoin_block"
    /\ "network" \in DOMAIN ArgsOf(last)
    /\ ArgsOf(last)["network"] = JStr("testnet")
    /\ last.fetches = <<(<<"https://blockstream.info/testnet/api", "/block/", "4a5e1e">>)>>

NamesOf(tools) == {tools[i].name : i \in DOMAIN tools}

\* C8: every tools/list response is a result that lists the 8 registered
\* tools, each name once, each with a non-empty schema object, without a
\* cursor; and all the tools/list responses of a run are the same sequence.
C8_ListingStable ==
    /\ \A a, b \in listings : a[2] = b[2]
    /\ (last.method = "tools/list" /\ last.resp # <<>>)
          => /\ Len(last.resp) = 1
             /\ last.resp[1].result.ok
             /\ <<last.params, last.resp[1].result>> \in listings
             /\ LET r == last.resp[1].result.val
                IN  /\ Len(r.tools) = 8
                    /\ NamesOf(r.tools) = BitcoinTools \cup LiquidTools
                    /\ \A i \in DOMAIN r.tools :
                          /\ DOMAIN r.tools[i].input_schema # {}
                          /\ r.tools[i].input_schema.properties # {}
                    /\ r.next_cursor = None

\* A second listing, asked with a cursor, after an earlier listing without.
C8_Witness ==
    /\ last.method = "tools/list"
    /\ last.resp # <<>>
    /\ last.params = Some([cursor |-> Some("page2")])
    /\ Cardinality(listings) = 2
    /\ \E a \in listings : a[1] = None

\* The message calls a tool with a required field and omits the field or
\* gives it a non-string value; the response is the invalid parameters
\* failure; its message, after the prefix, names the field.
RequiredBad(h) ==
    /\ RequiredField(h.params.name) # ""
    /\ \/ RequiredField(h.params.name) \notin DOMAIN ArgsOf(h)
       \/ ArgsOf(h)[RequiredField(h.params.name)].ty # "string"

InvalidParameters(h) ==
    /\ Failed(h)
    /\ h.resp[1].result.err.code = "invalid_request"
    /\ Head(h.resp[1].result.err.message) = "Invalid parameters: "

NamesField(h) ==
    RequiredField(h.params.name) \in Range(Tail(h.resp[1].result.err.message))

\* C9 as claimed: a handled call of a tool with a required field that omits
\* the field or gives it a non-string value is answered with an invalid
\* parameters failure whose message names the field, and fetches nothing.
C9_Original ==
    (IsCall(last) /\ RequiredBad(last))
        => (InvalidParameters(last) /\ NamesField(last) /\ last.fetches = <<>>)

\* C9 as amended: such a call is answered with an invalid parameters failure
\* and fetches nothing; the message names the field when the field is
\* omitted and the network argument is absent or legal.  (A non-string
\* value, or an illegal network beside the omitted field, is reported by
\* its type or its tag, without the field's name.)
C9_RequiredFieldRejected ==
    (IsCall(last) /\ RequiredBad(last))
        => /\ InvalidParameters(last)
           /\ last.fetches = <<>>
           /\ (/\ RequiredField(last.params.name) \notin DOMAIN ArgsOf(last)
               /\ ~IllegalNetwork(last))
                 => NamesField(last)

C9_Witness ==
    /\ IsCall(last)
    /\ last.params.name = "get_bitcoin_block"
    /\ ~last.params.arguments.some
    /\ InvalidParameters(last)
    /\ last.resp[1].result.err.message
          = <<"Invalid parameters: ", "missing field ", "hash">>

BackendFailed(h) == h.reply.status \in {"call_failed", "read_failed"}

\* C10: the step that handles a call whose fetch the backend fails writes
\* one response, an internal error whose message is the fetch's error string
\* and nothing else, after exactly one fetch, and leaves the server serving;
\* no call fetches more than once.
C10_FetchFailureReportedOnce ==
    [][(phase = "Serving" /\ nextId' = nextId + 1 /\ last'.method = "tools/call")
       => /\ Len(last'.fetches) <= 1
          /\ BackendFailed(last')
               => /\ Len(last'.fetches) = 1
                  /\ Failed(last')
                  /\ out' = Append(out, last'.id)
                  /\ last'.resp[1].result.err
                        = [code |-> "internal_error",
                           message |-> fetch_esplora(last'.fetches[1],
                                                     last'.reply).result.err,
                           data |-> None]
                  /\ phase' = "Serving"
                  /\ exit' = "running"]_vars

\* A call whose fetch failed was answered with an internal error after an
\* earlier request of the serving phase, and the server is still serving.
C10_Witness ==
    /\ phase = "Serving"
    /\ out = <<1, 3, 4>>
    /\ last.id = 4
    /\ last.method = "tools/call"
    /\ BackendFailed(last)
    /\ Failed(last)
    /\ KindOf(last) = "internal_error"

\* C11: a handled call that has the name, the arguments and the backend
\* reply of a call the observer noted earlier in the run fetched the same
\* URLs and was answered with the same result, whatever was handled before
\* and between the two.
C11_OutcomeIndependentOfHistory ==
    (/\ ref # NoRef
     /\ IsCall(last)
     /\ last.params = ref.params
     /\ last.reply = ref.reply)
        => (last.fetches = ref.fetches /\ last.resp[1].result = ref.result)

\* The third request of the serving phase repeats the first, whose fetch
\* failed; the request between them was answered and was no listing.
C11_Witness ==
    /\ ref # NoRef
    /\ ref.id = 3
    /\ last.id = 5
    /\ out = <<1, 3, 4, 5>>
    /\ listings = {}
    /\ IsCall(last)
    /\ last.params = ref.params
    /\ last.reply = ref.reply
    /\ last.params.name = "get_bitcoin_tx"
    /\ BackendFailed(last)
    /\ Failed(last)

\* The names tools/list returns; the base addresses of the two families;
\* the unknown-tool failure.
ListedNames == NamesOf(list_tools(None).val.tools)

BitcoinBases ==
    {"https://blockstream.info/api", "https://blockstream.info/testnet/api",
     "https://blockstream.info/signet/api"}
LiquidBases ==
    {"https://blockstream.info/liquid/api",
     "https://blockstream.info/liquidtestnet/api"}

UnknownToolFailure(h) ==
    /\ Failed(h)
    /\ Head(h.resp[1].result.err.message) = "Unknown tool: "

\* C12: a handled call is answered with the unknown-tool failure exactly
\* when its name is not one tools/list returns (in the listings of the run
\* and in any other); a get_bitcoin_* tool fetches only from a Bitcoin base
\* address and a get_liquid_* tool only from a Liquid one.
C12_ListedIffDispatched ==
    /\ \A l \in listings : l[2].ok /\ NamesOf(l[2].val.tools) = ListedNames
    /\ IsCall(last)
         => /\ UnknownToolFailure(last) <=> last.params.name \notin ListedNames
            /\ \A i \in DOMAIN last.fetches :
                  /\ last.params.name \in BitcoinTools
                        => last.fetches[i][1] \in BitcoinBases
                  /\ last.params.name \in LiquidTools
                        => last.fetches[i][1] \in LiquidBases
                  /\ last.params.name \in BitcoinTools \cup LiquidTools

\* A tool the earlier listing of the run named is called and fetches from
\* its family's testnet address.
C12_Witness ==
    /\ listings # {}
    /\ IsCall(last)
    /\ last.params.name = "get_liquid_block"
    /\ last.params.name \in ListedNames
    /\ ~Failed(last)
    /\ last.fetches
          = <<(<<"https://blockstream.info/liquidtestnet/api", "/block/", "4a5e1e">>)>>

====
